---- MODULE Spec2Model ----
(***************************************************************************)
(* Model of the blog/user CRUD backend: the request handlers of           *)
(* UserController (src/unnamed/part_000) over the data-access methods of  *)
(* UserModel (src/models/user.model.js).                                  *)
(*                                                                         *)
(* A request that needs two storage round trips (update blog, delete       *)
(* blog) awaits twice: at the fetch and at the write.  The fetch only      *)
(* reads the table, so of two overlapping requests the one that writes     *)
(* first behaves as if it ran whole between the fetch and the write of the *)
(* other.  The model therefore holds at most one request at its second     *)
(* await (Suspend, then Resume) while the other requests run whole.        *)
(*                                                                         *)
(* The response a step sends stays in `last` until the step Deliver hands  *)
(* it to the client; handlers run one at a time on the event loop, so no   *)
(* handler step runs between a sendResponse and the end of its request.    *)
(*                                                                         *)
(* The SQL text built by UserModel.updateBlog interpolates every entry of *)
(* the object it is given as `key = 'value'`; the integer columns convert *)
(* the quoted decimal text back to the same integer, so an assignment is  *)
(* modelled by the (key, value) entry itself.                             *)
(***************************************************************************)
EXTENDS Integers, Sequences, FiniteSets, TLC

\* Bound: the largest identifier the blogs table's AUTO_INCREMENT hands out.
MaxBlogId == 2


\* ---------------------------------------------------------------- inputs
Users        == {7, 8}          \* authenticated callers (res.locals.user.id)
UserPathIds  == {7, 9}          \* req.params.id of the user routes; 9 has no row
BlogIds      == 1..MaxBlogId    \* req.params.id of the blog routes
Titles       == {"T", "T2"}
Descriptions == {"D"}
Usernames    == {"U"}

\* Keys a request body may carry.
Keys == {"title", "description", "userId", "id", "username"}

\* The request bodies with the given key sets: the set of keys present and
\* the value of each.  A key that is absent holds a fixed value, which is
\* never read.  A body that names a userId names user 8 and one that names
\* an id names blog 1.
BodiesOf(keySets) ==
  { b \in [keys : keySets, title : Titles, description : Descriptions,
           userId : {8}, id : {1}, username : Usernames] :
      "title" \notin b.keys => b.title = "T" }

\* Bodies of create blog: with and without each required field, with and
\* without a userId of the client's choosing.
CreateBodies ==
  { b \in BodiesOf({ {}, {"title"}, {"description"}, {"title", "description"},
                     {"title", "description", "userId"} }) : b.title = "T" }

\* Bodies of update blog: no allow-listed field, an allow-listed field alone,
\* and an allow-listed field next to a field outside the allow-list.
BlogUpdateBodies ==
  { b \in BodiesOf({ {}, {"userId"}, {"title"}, {"title", "userId"},
                     {"title", "id"}, {"title", "username"} }) :
      Cardinality(b.keys) = 2 => b.title = "T2" }

\* Bodies of update user.
UserUpdateBodies == BodiesOf({ {}, {"userId"}, {"username"}, {"username", "userId"} })

EmptyBody ==
  [keys |-> {}, title |-> "T", description |-> "D", userId |-> 8, id |-> 1,
   username |-> "U"]

\* ------------------------------------------------- helpers/constants.js
STATUS_CODES ==
  [OK |-> 200, SUCCESSFULLY_CREATED |-> 201, BAD_REQUEST |-> 400,
   UNAUTHORIZED |-> 401, INTERNAL_SERVER_ERROR |-> 500]

blogCreationRequiredFields == {"title", "description", "userId"}
possibleBlogUpdateFields   == {"title", "description"}
userUpdateFields           == {"username"}

\* ----------------------------------------------------- helpers/utils.js
\* isAvailable(body, fields, allRequired = true)
isAvailable(body, fields, allRequired) ==
  IF allRequired THEN fields \subseteq body.keys
                 ELSE fields \cap body.keys # {}

Msg(text, id) == <<text, id>>

NoData    == [kind |-> "undefined", val |-> 0]   \* argument not passed
EmptyList == [kind |-> "array", val |-> 0]       \* the literal []

\* sendResponse(res, status, message, data, error)
sendResponse(status, message, data, error) ==
  [status |-> status, message |-> message, data |-> data, error |-> error]

\* ------------------------------------------------------------- errors
\* A thrown error: status 0 and message "" stand for a missing (falsy)
\* property.
NoError == [thrown |-> FALSE, status |-> 0, message |-> ""]
Err(status, message) == [thrown |-> TRUE, status |-> status, message |-> message]

\* Failures of a storage round trip (connection or statement errors).
Failures == {NoError, Err(503, "")}

BadFieldError  == Err(0, "ER_BAD_FIELD_ERROR")
DupEntryError  == Err(0, "ER_DUP_ENTRY")
NotAFunction   == Err(0, "UserModel.updateUser is not a function")

\* ------------------------------------------ storage behind executeQuery
\* The blogs table is a function from the ids of its rows to the rows; the
\* users table is fixed, since nothing in this layer writes it.
Columns == {"id", "title", "description", "userId"}

UsersTable ==
  [u \in Users |-> [id |-> u, username |-> IF u = 7 THEN "seven" ELSE "eight"]]

\* SELECT * FROM blogs WHERE id = ?
SqlSelectById(db, blogId) ==
  IF blogId \in DOMAIN db THEN <<db[blogId]>> ELSE <<>>

\* INSERT INTO blogs SET ?  (the id comes from the AUTO_INCREMENT counter)
SqlInsert(db, auto, params) ==
  IF auto \in DOMAIN db
    THEN [err |-> DupEntryError, db |-> db, insertId |-> 0]
    ELSE [err |-> NoError,
          db |-> [i \in DOMAIN db \cup {auto} |->
                    IF i = auto
                      THEN [id |-> auto, title |-> params.title,
                            description |-> params.description,
                            userId |-> params.userId]
                      ELSE db[i]],
          insertId |-> auto]

\* The row after UPDATE blogs SET <every entry of set> has been applied.
AssignedRow(old, set) ==
  [id          |-> IF "id" \in set.keys THEN set.id ELSE old.id,
   title       |-> IF "title" \in set.keys THEN set.title ELSE old.title,
   description |-> IF "description" \in set.keys
                     THEN set.description ELSE old.description,
   userId      |-> IF "userId" \in set.keys THEN set.userId ELSE old.userId]

\* UPDATE blogs SET ... WHERE id = ?.  foundRows is the driver's
\* CLIENT_FOUND_ROWS flag: with it a matched row counts as affected even
\* when no value changes.
SqlUpdate(db, set, blogId, foundRows) ==
  IF set.keys \ Columns # {}
    THEN [err |-> BadFieldError, db |-> db, affectedRows |-> 0, movedTo |-> 0]
  ELSE IF blogId \notin DOMAIN db
    THEN [err |-> NoError, db |-> db, affectedRows |-> 0, movedTo |-> 0]
  ELSE LET old == db[blogId]
           new == AssignedRow(old, set)
       IN  IF new.id # blogId /\ new.id \in DOMAIN db
             THEN [err |-> DupEntryError, db |-> db, affectedRows |-> 0,
                   movedTo |-> 0]
           ELSE IF new = old
             THEN [err |-> NoError, db |-> db,
                   affectedRows |-> IF foundRows THEN 1 ELSE 0,
                   movedTo |-> blogId]
           ELSE [err |-> NoError,
                 db |-> [i \in (DOMAIN db \ {blogId}) \cup {new.id} |->
                           IF i = new.id THEN new ELSE db[i]],
                 affectedRows |-> 1, movedTo |-> new.id]

\* DELETE FROM blogs WHERE id = ?
SqlDelete(db, blogId) ==
  IF blogId \in DOMAIN db
    THEN [err |-> NoError, db |-> [i \in DOMAIN db \ {blogId} |-> db[i]],
          affectedRows |-> 1]
    ELSE [err |-> NoError, db |-> db, affectedRows |-> 0]

\* ------------------------------------------------------- models/auth.model.js
\* AuthModel.findUserByAttribute('id', value): the user record or absent.
AuthModelFindUserByAttribute(value, fail) ==
  [err |-> fail,
   value |-> IF ~fail.thrown /\ value \in DOMAIN UsersTable
               THEN <<UsersTable[value]>> ELSE <<>>]

\* ------------------------------------------------------- models/user.model.js
\* Each method runs one statement; `fail` is the error executeQuery throws,
\* NoError when the statement runs.
UserModelGetAllBlogs(db, fail) ==
  [err |-> fail, value |-> IF fail.thrown THEN <<>> ELSE db]

\* result[0]: a sequence of at most one row stands for "row or undefined".
UserModelGetBlogById(db, blogId, fail) ==
  [err |-> fail,
   value |-> IF fail.thrown THEN <<>> ELSE SqlSelectById(db, blogId)]

UserModelCreateBlog(db, auto, title, description, userId, fail) ==
  IF fail.thrown
    THEN [err |-> fail, db |-> db, insertId |-> 0]
    ELSE SqlInsert(db, auto,
                   [userId |-> userId, title |-> title,
                    description |-> description])

\* The columns the SET clause names: one `key = 'value'` per entry of
\* targetObj.
SetClause(targetObj) == targetObj.keys

UserModelUpdateBlog(db, targetObj, blogId, fail, foundRows) ==
  IF fail.thrown
    THEN [err |-> fail, db |-> db, affectedRows |-> 0, movedTo |-> 0]
    ELSE SqlUpdate(db, [targetObj EXCEPT !.keys = SetClause(targetObj)],
                   blogId, foundRows)

UserModelDeleteBlog(db, blogId, fail) ==
  IF fail.thrown
    THEN [err |-> fail, db |-> db, affectedRows |-> 0]
    ELSE SqlDelete(db, blogId)

\* The static methods the class UserModel defines.  updateUser is not one
\* of them.
UserModelMethods ==
  {"getAllBlogs", "getBlogById", "createBlog", "updateBlog", "deleteBlog"}

\* ------------------------------------------------------------- state
VARIABLES
  blogs,      \* the blogs table
  nextId,     \* its AUTO_INCREMENT counter
  pending,    \* the request held at its second await: <<>> or <<request>>
  last,       \* the request that responded most recently, with its response
  deletedOk   \* history: ids for which a delete has answered "deleted successfully"

vars == <<blogs, nextId, pending, last, deletedOk>>

\* A request suspended at its second await; owner is the userId of the row
\* its fetch returned.
Suspended(op, caller, id, body, owner) ==
  [op |-> op, caller |-> caller, id |-> id, body |-> body, owner |-> owner]

\* The record of a finished request before its outcome is filled in.
Request(op, caller, id, body) ==
  [op |-> op, caller |-> caller, id |-> id, body |-> body,
   resp |-> sendResponse(0, Msg("", 0), NoData, "absent"),
   reads |-> 0,          \* storage reads this request issued
   writes |-> 0,         \* storage writes this request issued
   err |-> NoError,      \* the error a data-access call threw, if any
   fetched |-> "none",   \* what the ownership fetch returned
   owner |-> 0,          \* userId of the fetched row
   affected |-> 0,       \* affectedRows of the write
   ownerAtWrite |-> 0,   \* userId of the row when the write was applied
   written |-> {},       \* columns the executed UPDATE assigned
   afterDelete |-> FALSE \* the id had been deleted successfully before
  ]

Init ==
  /\ blogs = <<>>
  /\ nextId = 1
  /\ pending = <<>>
  /\ last = Request("none", 0, 0, EmptyBody)
  /\ deletedOk = {}

\* ------------------------------------------------- controller helpers
\* Variant: the userId of the body is left as the client sent it.
KeepUserId(requestBody, callerId) == requestBody

\* requestBody.userId = res.locals.user.id
OverwriteUserId(requestBody, callerId) ==
  [requestBody EXCEPT !.keys = @ \cup {"userId"}, !.userId = callerId]

\* Variant: one required field is enough.
someFieldIsPresent(requestBody) ==
  isAvailable(requestBody, blogCreationRequiredFields, FALSE)

allFieldsArePresent(requestBody) ==
  isAvailable(requestBody, blogCreationRequiredFields, TRUE)

blogFieldsToBeUpdatedExist(requestBody) ==
  isAvailable(requestBody, possibleBlogUpdateFields, FALSE)

userFieldsToBeUpdatedExist(requestBody) ==
  isAvailable(requestBody, userUpdateFields, FALSE)

\* Variant: the ownership check lets every caller through.
IsAnyone(ownerId, callerId) == TRUE

\* The negation of `x.userId !== res.locals.user.id` (and of
\* `user.id !== res.locals.user.id`).
IsOwner(ownerId, callerId) == ownerId = callerId

\* Variant: the catch block ignores the error's own status and message.
CatchBlockGeneric(error) ==
  sendResponse(STATUS_CODES.INTERNAL_SERVER_ERROR,
               Msg("Internal Server Error", 0), EmptyList, "attached")

\* The catch block every operation ends with.
CatchBlock(error) ==
  sendResponse(
    IF error.status # 0 THEN error.status
                        ELSE STATUS_CODES.INTERNAL_SERVER_ERROR,
    IF error.message # "" THEN Msg(error.message, 0)
                          ELSE Msg("Internal Server Error", 0),
    EmptyList, "attached")

\* Variant: the result of the write is not looked at.
updateBlogOutcomeUnchecked(affectedRows, blogId) ==
  sendResponse(STATUS_CODES.OK, Msg("Blog updated successfully", blogId),
               NoData, "absent")

updateBlogOutcome(affectedRows, blogId) ==
  IF affectedRows # 0
    THEN sendResponse(STATUS_CODES.OK,
                      Msg("Blog updated successfully", blogId), NoData, "absent")
    ELSE sendResponse(STATUS_CODES.BAD_REQUEST,
                      Msg("Blog could not be updated", blogId), NoData, "absent")

deleteBlogOutcome(affectedRows, blogId) ==
  IF affectedRows # 0
    THEN sendResponse(STATUS_CODES.OK,
                      Msg("Blog deleted successfully", blogId), NoData, "absent")
    ELSE sendResponse(STATUS_CODES.BAD_REQUEST,
                      Msg("Blog could not be deleted", blogId), NoData, "absent")

BlogNotFound(blogId) ==
  sendResponse(STATUS_CODES.OK, Msg("Blog not found", blogId), NoData, "absent")

Unauthorized ==
  sendResponse(STATUS_CODES.UNAUTHORIZED, Msg("You are not authorized", 0),
               NoData, "absent")

FieldsDoNotExist ==
  sendResponse(STATUS_CODES.BAD_REQUEST,
               Msg("Fields to be updated does not exist", 0), NoData, "absent")

\* ------------------------------------------------------------ actions
\* No response is waiting to be delivered.
Quiet == last.op = "none"

\* The response sent by the last step reaches the client and the request ends.
Deliver ==
  /\ ~Quiet
  /\ last' = Request("none", 0, 0, EmptyBody)
  /\ UNCHANGED <<blogs, nextId, pending, deletedOk>>

\* UserController.getAllBlogs
GetAllBlogs(fail) ==
  LET r == UserModelGetAllBlogs(blogs, fail) IN
  /\ Quiet
  /\ last' = [Request("getAllBlogs", 0, 0, EmptyBody) EXCEPT
                !.reads = 1, !.err = r.err,
                !.resp = IF r.err.thrown
                           THEN CatchBlock(r.err)
                           ELSE sendResponse(STATUS_CODES.OK,
                                  Msg("All blogs fetched successfully", 0),
                                  [kind |-> "blogs", val |-> r.value], "absent")]
  /\ UNCHANGED <<blogs, nextId, pending, deletedOk>>

\* UserController.createBlog
CreateBlog(caller, body, fail) ==
  LET requestBody == OverwriteUserId(body, caller)
      req == Request("createBlog", caller, 0, body)
  IN
  /\ Quiet
  /\ IF ~allFieldsArePresent(requestBody)
    THEN /\ last' = [req EXCEPT !.resp =
                       sendResponse(STATUS_CODES.BAD_REQUEST,
                                    Msg("Some fields are missing", 0),
                                    NoData, "absent")]
         /\ UNCHANGED <<blogs, nextId, pending, deletedOk>>
    ELSE LET r == UserModelCreateBlog(blogs, nextId, requestBody.title,
                                      requestBody.description,
                                      requestBody.userId, fail)
         IN
         /\ nextId <= MaxBlogId
         /\ blogs' = r.db
         /\ nextId' = IF fail.thrown THEN nextId ELSE nextId + 1
         /\ last' = [req EXCEPT
                       !.writes = 1, !.err = r.err,
                       !.resp = IF r.err.thrown
                                  THEN CatchBlock(r.err)
                                  ELSE sendResponse(
                                         STATUS_CODES.SUCCESSFULLY_CREATED,
                                         Msg("Blog created successfully", 0),
                                         [kind |-> "created",
                                          val |-> [id |-> r.insertId,
                                                   title |-> requestBody.title,
                                                   description |-> requestBody.description,
                                                   userId |-> requestBody.userId]],
                                         "absent")]
         /\ UNCHANGED <<pending, deletedOk>>

\* UserController.getBlogById
GetBlogById(blogId, fail) ==
  LET r == UserModelGetBlogById(blogs, blogId, fail)
      req == [Request("getBlogById", 0, blogId, EmptyBody) EXCEPT
                !.reads = 1, !.err = r.err,
                !.afterDelete = (blogId \in deletedOk)]
  IN
  /\ Quiet
  /\ last' = IF r.err.thrown
               THEN [req EXCEPT !.resp = CatchBlock(r.err)]
             ELSE IF Len(r.value) = 0
               THEN [req EXCEPT !.fetched = "missing",
                                !.resp = BlogNotFound(blogId)]
             ELSE [req EXCEPT !.fetched = "found", !.owner = r.value[1].userId,
                              !.resp = sendResponse(STATUS_CODES.OK,
                                         Msg("Blog fetched successfully", blogId),
                                         [kind |-> "blog", val |-> r.value[1]],
                                         "absent")]
  /\ UNCHANGED <<blogs, nextId, pending, deletedOk>>

\* UserController.updateBlog up to its second await: validation, fetch,
\* existence and ownership checks.  `held` tells that the handler goes on to
\* the write; otherwise `last` is the finished request.
updateBlogFetch(db, caller, blogId, body, fail) ==
  LET req == Request("updateBlog", caller, blogId, body) IN
  IF ~blogFieldsToBeUpdatedExist(body)
    THEN [held |-> FALSE, owner |-> 0,
          last |-> [req EXCEPT !.resp = FieldsDoNotExist]]
    ELSE LET r == UserModelGetBlogById(db, blogId, fail)
             got == [req EXCEPT !.reads = 1, !.err = r.err]
         IN
         IF r.err.thrown
           THEN [held |-> FALSE, owner |-> 0,
                 last |-> [got EXCEPT !.resp = CatchBlock(r.err)]]
         ELSE IF Len(r.value) = 0
           THEN [held |-> FALSE, owner |-> 0,
                 last |-> [got EXCEPT !.fetched = "missing",
                                      !.resp = BlogNotFound(blogId)]]
         ELSE IF ~IsOwner(r.value[1].userId, caller)
           THEN [held |-> FALSE, owner |-> r.value[1].userId,
                 last |-> [got EXCEPT !.fetched = "found",
                                      !.owner = r.value[1].userId,
                                      !.resp = Unauthorized]]
         ELSE [held |-> TRUE, owner |-> r.value[1].userId, last |-> got]

\* UserController.updateBlog from its second await: the write and the response.
updateBlogWrite(db, q, fail, foundRows) ==
  LET r == UserModelUpdateBlog(db, q.body, q.id, fail, foundRows) IN
  [db |-> r.db,
   last |-> [Request("updateBlog", q.caller, q.id, q.body) EXCEPT
               !.reads = 1, !.writes = 1, !.fetched = "found",
               !.owner = q.owner, !.err = r.err,
               !.affected = r.affectedRows,
               !.ownerAtWrite = IF q.id \in DOMAIN db THEN db[q.id].userId ELSE 0,
               !.written = IF ~r.err.thrown /\ q.id \in DOMAIN db
                             THEN SetClause(q.body) ELSE {},
               !.resp = IF r.err.thrown
                          THEN CatchBlock(r.err)
                          ELSE updateBlogOutcome(r.affectedRows, q.id)]]

\* UserController.deleteBlog up to its second await.
deleteBlogFetch(db, caller, blogId, fail) ==
  LET r == UserModelGetBlogById(db, blogId, fail)
      got == [Request("deleteBlog", caller, blogId, EmptyBody) EXCEPT
                !.reads = 1, !.err = r.err]
  IN
  IF r.err.thrown
    THEN [held |-> FALSE, owner |-> 0,
          last |-> [got EXCEPT !.resp = CatchBlock(r.err)]]
  ELSE IF Len(r.value) = 0
    THEN [held |-> FALSE, owner |-> 0,
          last |-> [got EXCEPT !.fetched = "missing",
                               !.resp = BlogNotFound(blogId)]]
  ELSE IF ~IsOwner(r.value[1].userId, caller)
    THEN [held |-> FALSE, owner |-> r.value[1].userId,
          last |-> [got EXCEPT !.fetched = "found",
                               !.owner = r.value[1].userId,
                               !.resp = Unauthorized]]
  ELSE [held |-> TRUE, owner |-> r.value[1].userId, last |-> got]

\* UserController.deleteBlog from its second await.
deleteBlogWrite(db, q, fail) ==
  LET r == UserModelDeleteBlog(db, q.id, fail) IN
  [db |-> r.db,
   last |-> [Request("deleteBlog", q.caller, q.id, EmptyBody) EXCEPT
               !.reads = 1, !.writes = 1, !.fetched = "found",
               !.owner = q.owner, !.err = r.err,
               !.affected = r.affectedRows,
               !.ownerAtWrite = IF q.id \in DOMAIN db THEN db[q.id].userId ELSE 0,
               !.resp = IF r.err.thrown
                          THEN CatchBlock(r.err)
                          ELSE deleteBlogOutcome(r.affectedRows, q.id)]]

\* The ids whose delete has answered "deleted successfully", after `done`.
DeletedAfter(done) ==
  IF done.op = "deleteBlog"
     /\ done.resp.message = Msg("Blog deleted successfully", done.id)
    THEN deletedOk \cup {done.id} ELSE deletedOk

\* Update blog with no step of another request between its two awaits.
UpdateBlog(caller, blogId, body, fail1, fail2, foundRows) ==
  LET a == updateBlogFetch(blogs, caller, blogId, body, fail1)
      w == updateBlogWrite(blogs,
             Suspended("updateBlog", caller, blogId, body, a.owner),
             fail2, foundRows)
  IN
  /\ Quiet
  /\ blogs' = IF a.held THEN w.db ELSE blogs
  /\ last' = IF a.held THEN w.last ELSE a.last
  /\ UNCHANGED <<nextId, pending, deletedOk>>

\* Update blog reaches its second await and other requests run before its write.
UpdateBlogSuspend(caller, blogId, body) ==
  LET a == updateBlogFetch(blogs, caller, blogId, body, NoError) IN
  /\ Quiet
  /\ pending = <<>>
  /\ a.held
  /\ pending' = <<Suspended("updateBlog", caller, blogId, body, a.owner)>>
  /\ UNCHANGED <<blogs, nextId, last, deletedOk>>

\* The suspended update blog runs its write and responds.
UpdateBlogResume(fail, foundRows) ==
  /\ Quiet
  /\ pending # <<>>
  /\ pending[1].op = "updateBlog"
  /\ LET w == updateBlogWrite(blogs, pending[1], fail, foundRows) IN
       /\ blogs' = w.db
       /\ last' = w.last
  /\ pending' = <<>>
  /\ UNCHANGED <<nextId, deletedOk>>

\* Delete blog with no step of another request between its two awaits.
DeleteBlog(caller, blogId, fail1, fail2) ==
  LET a == deleteBlogFetch(blogs, caller, blogId, fail1)
      w == deleteBlogWrite(blogs,
             Suspended("deleteBlog", caller, blogId, EmptyBody, a.owner), fail2)
      done == IF a.held THEN w.last ELSE a.last
  IN
  /\ Quiet
  /\ blogs' = IF a.held THEN w.db ELSE blogs
  /\ last' = done
  /\ deletedOk' = DeletedAfter(done)
  /\ UNCHANGED <<nextId, pending>>

\* Delete blog reaches its second await and other requests run before its write.
DeleteBlogSuspend(caller, blogId) ==
  LET a == deleteBlogFetch(blogs, caller, blogId, NoError) IN
  /\ Quiet
  /\ pending = <<>>
  /\ a.held
  /\ pending' = <<Suspended("deleteBlog", caller, blogId, EmptyBody, a.owner)>>
  /\ UNCHANGED <<blogs, nextId, last, deletedOk>>

\* The suspended delete blog runs its write and responds.
DeleteBlogResume(fail) ==
  /\ Quiet
  /\ pending # <<>>
  /\ pending[1].op = "deleteBlog"
  /\ LET w == deleteBlogWrite(blogs, pending[1], fail) IN
       /\ blogs' = w.db
       /\ last' = w.last
       /\ deletedOk' = DeletedAfter(w.last)
  /\ pending' = <<>>
  /\ UNCHANGED nextId

\* UserController.getUserById
GetUserById(caller, userId, fail) ==
  LET r == AuthModelFindUserByAttribute(userId, fail)
      req == [Request("getUserById", caller, userId, EmptyBody) EXCEPT
                !.reads = 1, !.err = r.err]
  IN
  /\ Quiet
  /\ last' = IF r.err.thrown
               THEN [req EXCEPT !.resp = CatchBlock(r.err)]
             ELSE IF Len(r.value) = 0
               THEN [req EXCEPT !.fetched = "missing",
                                !.resp = sendResponse(STATUS_CODES.OK,
                                           Msg("User does not exist", userId),
                                           NoData, "absent")]
             ELSE IF ~IsOwner(r.value[1].id, caller)
               THEN [req EXCEPT !.fetched = "found", !.owner = r.value[1].id,
                                !.resp = Unauthorized]
             ELSE [req EXCEPT !.fetched = "found", !.owner = r.value[1].id,
                              !.resp = sendResponse(STATUS_CODES.OK,
                                         Msg("User fetched successfully", userId),
                                         [kind |-> "user",
                                          val |-> [id |-> r.value[1].id,
                                                   username |-> r.value[1].username]],
                                         "absent")]
  /\ UNCHANGED <<blogs, nextId, pending, deletedOk>>

\* UserController.updateUser.  Its write is the call UserModel.updateUser(...),
\* and UserModel has no such method: evaluating the call throws a TypeError
\* inside the try block before any statement reaches the storage.
UpdateUser(caller, userId, body, fail) ==
  LET req == Request("updateUser", caller, userId, body) IN
  /\ Quiet
  /\   IF ~userFieldsToBeUpdatedExist(body)
         THEN last' = [req EXCEPT !.resp = FieldsDoNotExist]
         ELSE LET r == AuthModelFindUserByAttribute(userId, fail)
                  got == [req EXCEPT !.reads = 1, !.err = r.err]
              IN
              last' =
                IF r.err.thrown
                  THEN [got EXCEPT !.resp = CatchBlock(r.err)]
                ELSE IF Len(r.value) = 0
                  THEN [got EXCEPT !.fetched = "missing",
                                   !.resp = sendResponse(STATUS_CODES.OK,
                                              Msg("User does not exist", userId),
                                              NoData, "absent")]
                ELSE IF ~IsOwner(r.value[1].id, caller)
                  THEN [got EXCEPT !.fetched = "found",
                                   !.owner = r.value[1].id,
                                   !.resp = Unauthorized]
                ELSE IF "updateUser" \notin UserModelMethods
                  THEN [got EXCEPT !.fetched = "found",
                                   !.owner = r.value[1].id,
                                   !.err = NotAFunction,
                                   !.resp = CatchBlock(NotAFunction)]
                ELSE [got EXCEPT !.fetched = "found", !.owner = r.value[1].id,
                                 !.writes = 1,
                                 !.resp = sendResponse(STATUS_CODES.OK,
                                            Msg("User updated successfully", userId),
                                            NoData, "absent")]
  /\ UNCHANGED <<blogs, nextId, pending, deletedOk>>

Next ==
  \/ \E f \in Failures : GetAllBlogs(f)
  \/ \E c \in Users, b \in CreateBodies, f \in Failures : CreateBlog(c, b, f)
  \/ \E i \in BlogIds, f \in Failures : GetBlogById(i, f)
  \/ \E c \in Users, i \in BlogIds, b \in BlogUpdateBodies,
        f1 \in Failures, f2 \in Failures, fr \in BOOLEAN :
       UpdateBlog(c, i, b, f1, f2, fr)
  \/ \E c \in Users, i \in BlogIds, b \in BlogUpdateBodies :
       UpdateBlogSuspend(c, i, b)
  \/ \E f \in Failures, fr \in BOOLEAN : UpdateBlogResume(f, fr)
  \/ \E c \in Users, i \in BlogIds, f1 \in Failures, f2 \in Failures :
       DeleteBlog(c, i, f1, f2)
  \/ \E c \in Users, i \in BlogIds : DeleteBlogSuspend(c, i)
  \/ \E f \in Failures : DeleteBlogResume(f)
  \/ \E c \in Users, u \in UserPathIds, f \in Failures : GetUserById(c, u, f)
  \/ \E c \in Users, u \in UserPathIds, b \in UserUpdateBodies, f \in Failures :
       UpdateUser(c, u, b, f)
  \/ Deliver

Spec == Init /\ [][Next]_vars

\* ------------------------------------------------------------ claims
UpdateOrDelete(r) == r.op \in {"updateBlog", "deleteBlog"}

\* C1: an update blog or delete blog whose fetch finds a blog of another
\* user is answered UNAUTHORIZED, issues no storage write, and the step that
\* answers it leaves the blogs table as it was.
C1_UnauthorizedNoWrite ==
  [][ (UpdateOrDelete(last') /\ last'.fetched = "found"
       /\ last'.owner # last'.caller)
      => /\ last'.resp.status = STATUS_CODES.UNAUTHORIZED
         /\ last'.writes = 0
         /\ blogs' = blogs
         /\ nextId' = nextId ]_vars

C1_Witness ==
  /\ last.op = "updateBlog" /\ last.fetched = "found"
  /\ last.owner = 7 /\ last.caller = 8
  /\ last.resp.status = STATUS_CODES.UNAUTHORIZED
  /\ "title" \in last.body.keys

\* C2: no update operation writes a field outside its allow-list to storage.
C2_OnlyAllowListWritten ==
  /\ last.op = "updateBlog" => last.written \subseteq {"title", "description"}
  /\ last.op = "updateUser" => last.written \subseteq {"username"}

\* C3: the userId of a blog never changes while the blog exists.
C3_OwnerImmutable ==
  [][ \A i \in DOMAIN blogs \cap DOMAIN blogs' :
        blogs'[i].userId = blogs[i].userId ]_vars

\* C4: a create blog with title and description, when the insert does not
\* throw, stores a row owned by the caller under the generated id and answers
\* SUCCESSFULLY_CREATED with {id, title, description, userId: caller},
\* whatever userId the body carried.
C4_CreateOwnedByCaller ==
  [][ (last'.op = "createBlog" /\ last # last'
       /\ {"title", "description"} \subseteq last'.body.keys
       /\ ~last'.err.thrown)
      => LET row == [id |-> nextId, title |-> last'.body.title,
                     description |-> last'.body.description,
                     userId |-> last'.caller]
         IN /\ last'.resp.status = STATUS_CODES.SUCCESSFULLY_CREATED
            /\ last'.resp.data.kind = "created"
            /\ last'.resp.data.val = row
            /\ nextId \notin DOMAIN blogs
            /\ nextId \in DOMAIN blogs'
            /\ blogs'[nextId] = row ]_vars

C4_Witness ==
  /\ last.op = "createBlog" /\ last.caller = 7
  /\ "userId" \in last.body.keys /\ last.body.userId = 8
  /\ last.resp.status = STATUS_CODES.SUCCESSFULLY_CREATED
  /\ last.resp.data.val.userId = 7

\* The body fails the validation of its operation.
FailsValidation(r) ==
  \/ r.op = "createBlog" /\ ~({"title", "description"} \subseteq r.body.keys)
  \/ r.op = "updateBlog" /\ r.body.keys \cap {"title", "description"} = {}
  \/ r.op = "updateUser" /\ "username" \notin r.body.keys

\* C5: a request that fails validation is answered BAD_REQUEST without any
\* storage read or write, and the stored state is unchanged.
C5_ValidationBeforeStorage ==
  [][ FailsValidation(last')
      => /\ last'.resp.status = STATUS_CODES.BAD_REQUEST
         /\ last'.reads = 0 /\ last'.writes = 0
         /\ ~last'.err.thrown
         /\ blogs' = blogs /\ nextId' = nextId ]_vars

C5_Witness ==
  /\ last.op = "createBlog" /\ last.body.keys = {"title"}
  /\ last.resp.status = STATUS_CODES.BAD_REQUEST
  /\ last.writes = 0

\* C6: a get blog by id issued after a delete of that id has answered
\* "deleted successfully" answers "not found" (when the select does not throw).
C6_DeletedStaysNotFound ==
  (last.op = "getBlogById" /\ last.afterDelete /\ ~last.err.thrown)
    => /\ last.resp.status = STATUS_CODES.OK
       /\ last.resp.message = Msg("Blog not found", last.id)
       /\ last.resp.data.kind = "undefined"
       /\ last.resp.error = "absent"

\* C7: an owner's update or delete whose write reports affectedRows = 0 is
\* answered "could not be updated" / "could not be deleted": not the success
\* answer and not the answer of the catch block.
C7_ZeroRowsDistinct ==
  (UpdateOrDelete(last) /\ last.writes = 1 /\ ~last.err.thrown
   /\ last.affected = 0)
    => /\ last.resp.status = STATUS_CODES.BAD_REQUEST
       /\ last.resp.message =
            Msg(IF last.op = "updateBlog" THEN "Blog could not be updated"
                                          ELSE "Blog could not be deleted",
                last.id)
       /\ last.resp.data.kind = "undefined"
       /\ last.resp.error = "absent"

C7_Witness ==
  /\ last.op = "updateBlog" /\ last.writes = 1 /\ ~last.err.thrown
  /\ last.affected = 0
  /\ last.id \notin DOMAIN blogs

\* C8: when a data-access call throws, the response carries the error's own
\* status, or INTERNAL_SERVER_ERROR without one, the error's own message, or
\* "Internal Server Error" without one, and empty data.
C8_ThrownErrorReported ==
  last.err.thrown
    => /\ last.resp.status = IF last.err.status # 0 THEN last.err.status ELSE 500
       /\ last.resp.message = IF last.err.message # ""
                                THEN Msg(last.err.message, 0)
                                ELSE Msg("Internal Server Error", 0)
       /\ last.resp.data.kind = "array"

C8_Witness ==
  /\ last.err.thrown /\ last.err.status = 503 /\ last.err.message = ""
  /\ last.op = "deleteBlog" /\ last.writes = 1
  /\ last.resp.status = 503

\* C9: an update user with an allow-listed field, on the caller's own
\* existing user, whose storage calls do not fail, performs the write and
\* answers "updated successfully" or "could not be updated".
C9_UpdateUserWrites ==
  (last.op = "updateUser" /\ "username" \in last.body.keys
   /\ last.id \in DOMAIN UsersTable /\ last.id = last.caller
   /\ last.err \notin Failures \ {NoError})
    => /\ last.writes = 1
       /\ last.resp.message \in {Msg("User updated successfully", last.id),
                                 Msg("User could not be updated", last.id)}

\* C10: an update or delete is applied to a blog only by a request whose
\* caller is the blog's userId at the moment the write is applied.
C10_OwnerAtWrite ==
  (UpdateOrDelete(last) /\ last.affected > 0)
    => last.ownerAtWrite = last.caller

====
